---- MODULE Spec2Model ----
(***************************************************************************)
(* gitsync: Worker.CloneOrPull (worker.go) over an abstract VCS backend.   *)
(*                                                                         *)
(* The state is the file system under w.path, the repository metadata the  *)
(* backend keeps behind the .git entry, and one call frame per process     *)
(* running CloneOrPull.  Every backend or file-system operation the code   *)
(* invokes is one step; the outcome of an operation that can fail is drawn *)
(* from the outcomes its interface allows.                                 *)
(***************************************************************************)
EXTENDS Naturals, Sequences, FiniteSets

VARIABLES
    w,          \* the Worker built by New
    opts,       \* the options New was called with
    reliable,   \* the backend fails no operation on its own
    procs,      \* the processes that run CloneOrPull on w
    fs,         \* the file system at w.path: [root, git, work]
    meta,       \* the repository metadata behind .git: [head, refs, remote, behind]
    call,       \* per process: the frame of its current (or last) CloneOrPull
    pushed,     \* the remote received new commits since the last call began
    lastDelete  \* the last run of delete: the file system before and after, its error

vars == <<w, opts, reliable, procs, fs, meta, call, pushed, lastDelete>>

-----------------------------------------------------------------------------
\* Bounds of the model.

\* Number of CloneOrPull calls one process makes in a behaviour.
MaxCalls == 2

-----------------------------------------------------------------------------
\* Reference names, URLs, errors.

\* The zero value of plumbing.ReferenceName (no branch configured, nil head).
NoRef == <<>>

\* A local branch reference name: the local-heads prefix and the short name.
RefName(name) == <<"refs/heads/", name>>

Master == RefName("master")

Dev == RefName("dev")

\* The branches the remote exposes.
Branches == {Master, Dev}

Path == "/mirror"

Origin == "urlA"

OtherURL == "urlB"

\* A remote that is not configured has no URL list.
NoRemote == <<>>

\* error values: the phase a fmt.Errorf wrapped the cause with ("" = the
\* backend's own error, unwrapped) and the kind of the cause.
Nil == [phase |-> "", kind |-> "nil"]

Err(kind) == [phase |-> "", kind |-> kind]

\* fmt.Errorf("<phase text>: %v", err)
Wrap(phase, e) == [phase |-> phase, kind |-> e.kind]

-----------------------------------------------------------------------------
\* Construction: New and the options.

Branch(name) == [field |-> "branch", value |-> RefName(name)]

ApplyOption(s, opt) ==
    IF opt.field = "branch" THEN [s EXCEPT !.branch = opt.value] ELSE s

RECURSIVE ApplyOptions(_, _)
ApplyOptions(s, options) ==
    IF options = <<>> THEN s
    ELSE ApplyOptions(ApplyOption(s, Head(options)), Tail(options))

New(path, origin, options) ==
    ApplyOptions([path |-> path, origin |-> origin, branch |-> NoRef], options)

\* The option lists a caller constructs the Worker with.
OptionLists == {<<>>, <<Branch("master")>>, <<Branch("dev")>>}

-----------------------------------------------------------------------------
\* File system and repository metadata.

WorkEntries == {"local.txt"}

NoMeta == [head |-> NoRef, refs |-> {}, remote |-> NoRemote, behind |-> FALSE]

\* What os.Stat reports of a path: it does not exist ("absent"), it is a
\* regular file, it is a directory, or the Stat fails for another reason
\* ("unreadable").  work holds the other entries under w.path.  A directory
\* can also be a bare repository ("bare"): it holds the repository metadata
\* itself and has no .git entry; PlainOpen(w.path) opens it.
FSStates ==
    {[root |-> k, git |-> "absent", work |-> {}] :
        k \in {"absent", "file", "unreadable", "bare"}}
    \cup {[root |-> "dir", git |-> g, work |-> wk] :
            g \in {"absent", "file", "dir", "unreadable"},
            wk \in SUBSET WorkEntries}

RemoteStates ==
    {NoRemote, <<Origin>>, <<OtherURL>>, <<Origin, OtherURL>>, <<Origin, Origin>>}

\* HEAD names a branch; it resolves iff that branch reference exists.
MetaStates ==
    {[head |-> h, refs |-> r, remote |-> u, behind |-> b] :
        h \in Branches \cup {NoRef}, r \in SUBSET Branches,
        u \in RemoteStates, b \in BOOLEAN}

\* info.IsDir() of the path
IsDir(f) == f.root \in {"dir", "bare"}

ValidMeta(f, m) ==
    IF f.root # "bare" /\ f.git \in {"absent", "unreadable"} THEN m = NoMeta
    ELSE m \in MetaStates /\ (m.head # NoRef => m.head \in m.refs)

Mirror == [fs |-> fs, meta |-> meta]

-----------------------------------------------------------------------------
\* Call frames.

\* One record per backend operation a call has invoked, in order.
Ev(op, res, changed) ==
    [op |-> op, res |-> res, changed |-> changed,
     url |-> "", ref |-> NoRef, create |-> FALSE, force |-> FALSE]

Frame0 ==
    [pc |-> "idle", calls |-> 0, ctx |-> "live", i |-> 0,
     cloned |-> FALSE, head |-> NoRef, urls |-> NoRemote,
     existingBranch |-> FALSE, err |-> Nil, trace |-> <<>>,
     pre |-> [fs |-> [root |-> "absent", git |-> "absent", work |-> {}],
              meta |-> NoMeta],
     prevOK |-> FALSE, prevFailed |-> FALSE, quiet |-> FALSE,
     overlap |-> FALSE]

Idle(p) == call[p].pc \in {"idle", "done", "panic"}

Log(f, e) == [f EXCEPT !.trace = Append(@, e)]

\* CloneOrPull returns err.
Return(f, err) == [f EXCEPT !.pc = "done", !.err = err]

Init ==
    /\ opts \in OptionLists
    /\ w = New(Path, Origin, opts)
    /\ reliable = FALSE
    /\ procs = {1}
    /\ fs \in FSStates
    /\ meta \in MetaStates \cup {NoMeta}
    /\ ValidMeta(fs, meta)
    /\ call = [p \in procs |-> Frame0]
    /\ pushed = FALSE
    /\ lastDelete = [called |-> FALSE, pre |-> fs, post |-> fs, err |-> Nil]

-----------------------------------------------------------------------------
\* The backend.

\* The outcomes of an operation that the backend offers: all of them, or,
\* when it fails no operation on its own, those that are no failure of its
\* own (an "error" the state of the mirror forces stays).
Offered(S) ==
    IF reliable /\ S \ {"backend"} # {} THEN S \ {"backend"} ELSE S

\* The same for the results of a clone, where a success with an unresolvable
\* HEAD is a failure of the backend too.
OfferedClones(S) ==
    LET good == {r \in S : r.res = "nil" /\ r.meta.head # NoRef} IN
    IF reliable /\ good # {} THEN good ELSE S

\* The repository a call has opened is gone when another call has deleted
\* the .git entry since: an operation on it then either fails or acts on
\* empty metadata, and recreates the entry when it writes.
Gone(S) ==
    IF fs.root # "bare" /\ fs.git = "absent" THEN S \cup {"backend"} ELSE S

Written(f) ==
    IF f.root # "bare" /\ f.git = "absent" THEN [f EXCEPT !.git = "dir"] ELSE f

-----------------------------------------------------------------------------
\* CloneOrPull: entry.

\* A caller invokes CloneOrPull(ctx); ctx is live or already cancelled.
CloneOrPull(p) ==
    /\ Idle(p)
    /\ call[p].calls < MaxCalls
    /\ \E ctx \in {"live", "canceled"} :
        call' = [call EXCEPT ![p] =
                    [Frame0 EXCEPT !.pc = "open",
                                   !.calls = call[p].calls + 1,
                                   !.ctx = ctx,
                                   !.pre = Mirror,
                                   !.prevOK = (call[p].pc = "done" /\ call[p].err = Nil),
                                   !.prevFailed =
                                       (call[p].pc = "done" /\ call[p].err # Nil),
                                   !.quiet = ~pushed,
                                   !.overlap = \E q \in procs \ {p} : ~Idle(q)]]
    /\ pushed' = FALSE
    /\ UNCHANGED <<w, opts, reliable, procs, fs, meta, lastDelete>>

-----------------------------------------------------------------------------
\* prepare: the resolution loop.

attempts == 2

\* what CloneOrPull does once prepare has returned without an error
AfterPrepareIgnoringCloned(f) == [f EXCEPT !.pc = "getRemote"]

AfterPrepare(f) ==
    IF f.cloned THEN Return(f, Nil) ELSE [f EXCEPT !.pc = "getRemote"]

\* git.PlainOpen(w.path): the outcomes the file system allows
OpenOutcomes(f) ==
    IF f.root = "absent" THEN {"notexists"}
    ELSE IF f.root = "bare" THEN {"nil", "backend"}
    ELSE IF f.root # "dir" THEN {"backend"}
    ELSE IF f.git = "absent" THEN {"notexists"}
    ELSE IF f.git = "unreadable" THEN {"backend"}
    ELSE {"nil", "backend"}

\* the switch of openOrClone on the error of open; prepare returns at once
\* when openOrClone returns an error
openOrCloneRecovering(f, res) ==
    CASE res = "nil" -> [f EXCEPT !.pc = "head", !.cloned = FALSE]
      [] res = "notexists" -> [f EXCEPT !.pc = "clone", !.cloned = TRUE]
      [] OTHER -> [f EXCEPT !.pc = "delete", !.cloned = FALSE,
                            !.err = Wrap("open", Err(res))]

openOrClone(f, res) ==
    CASE res = "nil" -> [f EXCEPT !.pc = "head", !.cloned = FALSE]
      [] res = "notexists" -> [f EXCEPT !.pc = "clone", !.cloned = TRUE]
      [] OTHER -> Return([f EXCEPT !.cloned = FALSE], Wrap("open", Err(res)))

\* openOrClone, up to the clone
Open(p) ==
    /\ call[p].pc = "open"
    /\ \E res \in Offered(OpenOutcomes(fs)) :
        call' = [call EXCEPT ![p] =
                    openOrClone(Log(call[p], Ev("open", res, FALSE)), res)]
    /\ UNCHANGED <<w, opts, reliable, procs, fs, meta, pushed, lastDelete>>

\* the branch a clone of reference name ref checks out: ref itself, or one
\* of the remote's branches (its HEAD) when no reference name is given
CloneHeads(ref) == IF ref = NoRef THEN Branches ELSE {ref}

ClonedMeta(origin, h) ==
    [head |-> h, refs |-> IF h = NoRef THEN {} ELSE {h},
     remote |-> <<origin>>, behind |-> FALSE]

ClonedFS(f) == [root |-> "dir", git |-> "dir", work |-> f.work]

\* git.PlainCloneContext(ctx, w.path, false, {URL, ReferenceName, ...}):
\* success (HEAD resolvable, or not: an incomplete clone), failure leaving
\* the path as it was, failure leaving initialised metadata behind
CloneResults(ctx, f, m, origin, ref) ==
    IF ctx = "canceled" THEN {[res |-> "canceled", fs |-> f, meta |-> m]}
    ELSE IF f.root \notin {"absent", "dir"}
         THEN {[res |-> "backend", fs |-> f, meta |-> m]}
    ELSE {[res |-> "nil", fs |-> ClonedFS(f), meta |-> ClonedMeta(origin, h)] :
             h \in CloneHeads(ref) \cup {NoRef}}
         \cup {[res |-> "backend", fs |-> f, meta |-> m],
               [res |-> "backend", fs |-> ClonedFS(f),
                meta |-> ClonedMeta(origin, NoRef)]}

clone(p) ==
    /\ call[p].pc = "clone"
    /\ \E r \in OfferedClones(CloneResults(call[p].ctx, fs, meta, w.origin, w.branch)) :
        LET e == [Ev("clone", r.res, [fs |-> r.fs, meta |-> r.meta] # Mirror)
                     EXCEPT !.url = w.origin, !.ref = w.branch]
            f == Log(call[p], e)
        IN
        /\ fs' = r.fs
        /\ meta' = r.meta
        /\ call' = [call EXCEPT ![p] =
                IF r.res = "nil" THEN [f EXCEPT !.pc = "head"]
                ELSE Return(f, Err(r.res))]
    /\ UNCHANGED <<w, opts, reliable, procs, pushed, lastDelete>>

\* the loop test of prepare: for i := 0; i < attempts; i++
LoopOnceMore(i) == i < attempts + 1

Loop(i) == i < attempts

\* the i < attempts test that guards the delete
RetryDeleteBeforeLast(i) == i + 1 < attempts

RetryDelete(i) == i < attempts

\* repo.Head() and what prepare does with its result
ResolveHead(p) ==
    /\ call[p].pc = "head"
    /\ LET ok == meta.head # NoRef
           f == Log(call[p], Ev("head", IF ok THEN "nil" ELSE "unresolvable", FALSE))
       IN
       call' = [call EXCEPT ![p] =
            IF ok THEN AfterPrepare([f EXCEPT !.head = meta.head, !.err = Nil])
            ELSE LET g == [f EXCEPT !.head = NoRef,
                                    !.err = Wrap("head", Err("unresolvable"))]
                 IN IF RetryDelete(g.i) THEN [g EXCEPT !.pc = "delete"]
                    ELSE IF Loop(g.i + 1)
                         THEN [g EXCEPT !.pc = "open", !.i = g.i + 1]
                         ELSE Return(g, g.err)]
    /\ UNCHANGED <<w, opts, reliable, procs, fs, meta, pushed, lastDelete>>

-----------------------------------------------------------------------------
\* delete: the recovery deletion.

\* the entry under w.path that delete removes
wholePath == "root"

gitPath == "git"

\* os.RemoveAll(target)
RemoveAll(f, target) ==
    IF target = "git" THEN [f EXCEPT !.git = "absent"]
    ELSE [root |-> "absent", git |-> "absent", work |-> {}]

\* a RemoveAll can fail
Faults == {"none", "remove"}

deleteNoGitDirCheck(f, fault) ==
    IF f.root = "absent" THEN [err |-> Nil, remove |-> FALSE]
    ELSE IF f.root = "unreadable" THEN [err |-> Err("access"), remove |-> FALSE]
    ELSE IF ~IsDir(f) THEN [err |-> Err("notdir"), remove |-> FALSE]
    ELSE IF f.git = "absent" THEN [err |-> Nil, remove |-> FALSE]
    ELSE IF f.git = "unreadable" THEN [err |-> Err("access"), remove |-> FALSE]
    ELSE IF fault = "remove" THEN [err |-> Err("remove"), remove |-> FALSE]
    ELSE [err |-> Nil, remove |-> TRUE]

\* the guards of delete, in the order of the code: the error it returns and
\* whether RemoveAll removes the entry
delete(f, fault) ==
    IF f.root = "absent" THEN [err |-> Nil, remove |-> FALSE]
    ELSE IF f.root = "unreadable" THEN [err |-> Err("access"), remove |-> FALSE]
    ELSE IF ~IsDir(f) THEN [err |-> Err("notdir"), remove |-> FALSE]
    ELSE IF f.git = "absent" THEN [err |-> Nil, remove |-> FALSE]
    ELSE IF f.git = "unreadable" THEN [err |-> Err("access"), remove |-> FALSE]
    ELSE IF f.git # "dir" THEN [err |-> Err("notdir"), remove |-> FALSE]
    ELSE IF fault = "remove" THEN [err |-> Err("remove"), remove |-> FALSE]
    ELSE [err |-> Nil, remove |-> TRUE]

\* the file system and the metadata after a run of delete
Deleted(r) ==
    IF r.remove
    THEN LET g == RemoveAll(fs, gitPath) IN
         [fs |-> g, meta |-> IF g.git = "absent" THEN NoMeta ELSE meta]
    ELSE Mirror

\* w.delete() inside prepare, and the rest of the loop iteration
Delete(p) ==
    /\ call[p].pc = "delete"
    /\ \E fault \in (IF reliable THEN {"none"} ELSE Faults) :
        LET r == delete(fs, fault)
            post == Deleted(r)
            f == Log(call[p], Ev("delete", r.err.kind, post # Mirror))
        IN
        /\ fs' = post.fs
        /\ meta' = post.meta
        /\ lastDelete' = [called |-> TRUE, pre |-> fs, post |-> post.fs, err |-> r.err]
        /\ call' = [call EXCEPT ![p] =
                IF r.err # Nil THEN Return(f, Wrap("malformed", r.err))
                ELSE LET g == [f EXCEPT !.err = Nil, !.i = f.i + 1] IN
                     IF Loop(g.i) THEN [g EXCEPT !.pc = "open"]
                     ELSE AfterPrepare(g)]
    /\ UNCHANGED <<w, opts, reliable, procs, pushed>>

-----------------------------------------------------------------------------
\* updateOrigin: remote reconciliation.

\* len(urls) == 1 && urls[0] == w.origin
UrlsMatchFirstOnly(urls, origin) == urls[1] = origin

UrlsMatch(urls, origin) == Len(urls) = 1 /\ urls[1] = origin

\* updateOrigin returns err to CloneOrPull, which returns it as it is, or
\* goes on to open the worktree
AfterOriginIgnoringErr(f, err) == [f EXCEPT !.pc = "worktree"]

AfterOriginRecovering(f, err) ==
    IF err # Nil THEN [f EXCEPT !.pc = "delete", !.err = err]
    ELSE [f EXCEPT !.pc = "worktree"]

AfterOrigin(f, err) ==
    IF err # Nil THEN Return(f, err) ELSE [f EXCEPT !.pc = "worktree"]

\* repo.Remote("origin")
GetRemoteOutcomes(m) ==
    IF m.remote = NoRemote THEN {"remotenotfound", "backend"} ELSE {"nil", "backend"}

GetRemote(p) ==
    /\ call[p].pc = "getRemote"
    /\ \E res \in Gone(Offered(GetRemoteOutcomes(meta))) :
        LET f == Log(call[p], Ev("getRemote", res, FALSE)) IN
        call' = [call EXCEPT ![p] =
            CASE res = "remotenotfound" -> [f EXCEPT !.pc = "createRemote"]
              [] res = "nil" ->
                    IF UrlsMatch(meta.remote, w.origin)
                    THEN AfterOrigin([f EXCEPT !.urls = meta.remote], Nil)
                    ELSE [f EXCEPT !.urls = meta.remote, !.pc = "deleteRemote"]
              [] OTHER -> AfterOrigin(f, Err(res))]
    /\ UNCHANGED <<w, opts, reliable, procs, fs, meta, pushed, lastDelete>>

\* repo.DeleteRemote("origin")
DeleteRemoteOutcomes(m) ==
    IF m.remote = NoRemote THEN {"remotenotfound"} ELSE {"nil", "backend"}

DeleteRemote(p) ==
    /\ call[p].pc = "deleteRemote"
    /\ \E res \in Gone(Offered(DeleteRemoteOutcomes(meta))) :
        LET f == Log(call[p], Ev("deleteRemote", res, res = "nil")) IN
        /\ meta' = IF res = "nil" THEN [meta EXCEPT !.remote = NoRemote] ELSE meta
        /\ call' = [call EXCEPT ![p] =
                IF res = "nil" THEN [f EXCEPT !.pc = "createRemote"]
                ELSE AfterOrigin(f, Err(res))]
    /\ UNCHANGED <<w, opts, reliable, procs, fs, pushed, lastDelete>>

\* the RemoteConfig updateOrigin creates: Name "origin", URLs [w.origin]
cfgURLs(origin) == <<origin>>

\* repo.CreateRemote(&cfg)
CreateRemoteOutcomes(m) ==
    IF m.remote # NoRemote THEN {"remoteexists"} ELSE {"nil", "backend"}

CreateRemote(p) ==
    /\ call[p].pc = "createRemote"
    /\ \E res \in Gone(Offered(CreateRemoteOutcomes(meta))) :
        LET e == [Ev("createRemote", res, res = "nil") EXCEPT !.url = w.origin]
            f == Log(call[p], e)
        IN
        /\ meta' = IF res = "nil" THEN [meta EXCEPT !.remote = cfgURLs(w.origin)]
                   ELSE meta
        /\ fs' = IF res = "nil" THEN Written(fs) ELSE fs
        /\ call' = [call EXCEPT ![p] =
                IF res = "nil" THEN AfterOrigin(f, Nil) ELSE AfterOrigin(f, Err(res))]
    /\ UNCHANGED <<w, opts, reliable, procs, pushed, lastDelete>>

-----------------------------------------------------------------------------
\* Worktree, updateBranch, Pull.

\* repo.Worktree(): a bare repository has no worktree
WorktreeOutcomes(f) == IF f.root = "bare" THEN {"backend"} ELSE {"nil", "backend"}

\* repo.Worktree(), then the comparison head.Name() != w.branch; a nil head
\* is dereferenced there
Worktree(p) ==
    /\ call[p].pc = "worktree"
    /\ \E res \in Gone(Offered(WorktreeOutcomes(fs))) :
        LET f == Log(call[p], Ev("worktree", res, FALSE)) IN
        call' = [call EXCEPT ![p] =
            IF res # "nil" THEN Return(f, Wrap("worktree", Err(res)))
            ELSE IF f.head = NoRef THEN [f EXCEPT !.pc = "panic"]
            ELSE IF f.head # w.branch THEN [f EXCEPT !.pc = "reference"]
            ELSE [f EXCEPT !.pc = "pull"]]
    /\ UNCHANGED <<w, opts, reliable, procs, fs, meta, pushed, lastDelete>>

\* repo.Reference(w.branch, false): does the local branch exist
Reference(p) ==
    /\ call[p].pc = "reference"
    /\ LET ok == w.branch \in meta.refs
           e == [Ev("reference", IF ok THEN "nil" ELSE "refnotfound", FALSE)
                    EXCEPT !.ref = w.branch]
       IN
       call' = [call EXCEPT ![p] =
                    [Log(call[p], e) EXCEPT !.existingBranch = ok, !.pc = "checkout"]]
    /\ UNCHANGED <<w, opts, reliable, procs, fs, meta, pushed, lastDelete>>

\* the branch a checkout of reference name ref switches to: the backend
\* takes master when no branch is named
CheckoutBranch(ref) == IF ref = NoRef THEN Master ELSE ref

\* worktree.Checkout({Branch, Create, Force})
CheckoutOutcomes(m, ref, create) ==
    IF create /\ CheckoutBranch(ref) \in m.refs THEN {"branchexists"}
    ELSE IF ~create /\ CheckoutBranch(ref) \notin m.refs THEN {"refnotfound"}
    ELSE {"nil", "backend"}

\* the Create option of the checkout: !existingBranch
CreateAlways(existingBranch) == TRUE

Create(existingBranch) == ~existingBranch

Checkout(p) ==
    /\ call[p].pc = "checkout"
    /\ LET create == Create(call[p].existingBranch) IN
       \E res \in Gone(Offered(CheckoutOutcomes(meta, w.branch, create))),
          b \in BOOLEAN :
        LET m == IF res = "nil"
                 THEN [meta EXCEPT !.head = CheckoutBranch(w.branch),
                                   !.refs = @ \cup {CheckoutBranch(w.branch)},
                                   !.behind = b]
                 ELSE meta
            e == [Ev("checkout", res, m # meta) EXCEPT
                     !.ref = w.branch, !.create = create, !.force = TRUE]
            f == Log(call[p], e)
        IN
        /\ (res # "nil" => b = meta.behind)
        /\ meta' = m
        /\ fs' = IF res = "nil" THEN Written(fs) ELSE fs
        /\ call' = [call EXCEPT ![p] =
                IF res # "nil" THEN Return(f, Wrap("branch", Err(res)))
                ELSE [f EXCEPT !.pc = "pull"]]
    /\ UNCHANGED <<w, opts, reliable, procs, pushed, lastDelete>>

\* the switch on the error of Pull
PullErrStrict(res) == IF res = "nil" THEN Nil ELSE Wrap("pull", Err(res))

PullErr(res) ==
    IF res \in {"nil", "uptodate"} THEN Nil ELSE Wrap("pull", Err(res))

\* worktree.Pull({ReferenceName, Progress, Auth, Force}): it is given no
\* context, so its outcomes do not depend on ctx
PullOutcomes(m) == IF m.behind THEN {"nil", "backend"} ELSE {"uptodate", "backend"}

Pull(p) ==
    /\ call[p].pc = "pull"
    /\ \E res \in Gone(Offered(PullOutcomes(meta))) :
        LET e == [Ev("pull", res, res = "nil") EXCEPT !.ref = w.branch, !.force = TRUE]
            f == Log(call[p], e)
        IN
        /\ meta' = IF res = "nil" THEN [meta EXCEPT !.behind = FALSE] ELSE meta
        /\ call' = [call EXCEPT ![p] = Return(f, PullErr(res))]
    /\ UNCHANGED <<w, opts, reliable, procs, fs, pushed, lastDelete>>

-----------------------------------------------------------------------------
\* The environment and the specifications.

\* The remote receives new commits while no call is running.
Push ==
    /\ \A p \in procs : Idle(p)
    /\ ~pushed
    /\ pushed' = TRUE
    /\ meta' = IF fs.git \in {"file", "dir"} THEN [meta EXCEPT !.behind = TRUE]
               ELSE meta
    /\ UNCHANGED <<w, opts, reliable, procs, fs, call, lastDelete>>

\* delete run on its own, outside CloneOrPull, while no call is running
DirectDelete ==
    /\ \A p \in procs : Idle(p)
    /\ \E fault \in Faults :
        LET r == delete(fs, fault)
            post == Deleted(r)
        IN
        /\ fs' = post.fs
        /\ meta' = post.meta
        /\ lastDelete' = [called |-> TRUE, pre |-> fs, post |-> post.fs, err |-> r.err]
    /\ UNCHANGED <<w, opts, reliable, procs, call, pushed>>

Next ==
    \/ \E p \in procs : CloneOrPull(p)
    \/ \E p \in procs : Open(p)
    \/ \E p \in procs : clone(p)
    \/ \E p \in procs : ResolveHead(p)
    \/ \E p \in procs : Delete(p)
    \/ \E p \in procs : GetRemote(p)
    \/ \E p \in procs : DeleteRemote(p)
    \/ \E p \in procs : CreateRemote(p)
    \/ \E p \in procs : Worktree(p)
    \/ \E p \in procs : Reference(p)
    \/ \E p \in procs : Checkout(p)
    \/ \E p \in procs : Pull(p)
    \/ Push

Spec == Init /\ [][Next]_vars

NextDelete == Next \/ DirectDelete

SpecDelete == Init /\ [][NextDelete]_vars

\* Two processes, each with one call of CloneOrPull on the same Worker, their
\* backend operations interleaved; the backend fails no operation on its
\* own.  The Worker has a branch; the path is absent, or a directory with or
\* without a .git directory, resolvable or not.
InitConc ==
    /\ opts \in OptionLists \ {<<>>}
    /\ w = New(Path, Origin, opts)
    /\ reliable = TRUE
    /\ procs = {1, 2}
    /\ fs \in {f \in FSStates : /\ f.root \in {"absent", "dir"}
                               /\ f.git \in {"absent", "dir"}
                               /\ f.work = {}}
    /\ meta \in MetaStates \cup {NoMeta}
    /\ ValidMeta(fs, meta)
    /\ call = [p \in procs |-> [Frame0 EXCEPT !.calls = MaxCalls - 1]]
    /\ pushed = FALSE
    /\ lastDelete = [called |-> FALSE, pre |-> fs, post |-> fs, err |-> Nil]

SpecConc == InitConc /\ [][Next]_vars

\* A step of a call that is under way: the backend operation it waits for
\* returns.
CallStep ==
    \E p \in procs :
        \/ Open(p) \/ clone(p) \/ ResolveHead(p) \/ Delete(p)
        \/ GetRemote(p) \/ DeleteRemote(p) \/ CreateRemote(p)
        \/ Worktree(p) \/ Reference(p) \/ Checkout(p) \/ Pull(p)

\* Every backend operation a call invokes returns.
SpecLive == Init /\ [][Next]_vars /\ WF_vars(CallStep)

-----------------------------------------------------------------------------
\* Reading a call's trace.

Trace(p) == call[p].trace

Done(p) == call[p].pc = "done"

\* the positions of the invocations of op
At(p, op) == {k \in 1..Len(Trace(p)) : Trace(p)[k].op = op}

Count(p, op) == Cardinality(At(p, op))

\* the results of the invocations of op, in order
Results(p, op) ==
    LET IsOp(e) == e.op = op
        t == SelectSeq(Trace(p), IsOp)
    IN [k \in 1..Len(t) |-> t[k].res]

\* results that are no failure of the backend: success, and the answers
\* "there is none" and "nothing new" of the lookups and of pull
Succeeded(e) ==
    \/ e.res = "nil"
    \/ e.op = "open" /\ e.res = "notexists"
    \/ e.op = "getRemote" /\ e.res = "remotenotfound"
    \/ e.op = "reference" /\ e.res = "refnotfound"
    \/ e.op = "pull" /\ e.res = "uptodate"

NoFailure(p) == \A k \in 1..Len(Trace(p)) : Succeeded(Trace(p)[k])

Reconciles(p) ==
    Count(p, "getRemote") + Count(p, "createRemote") + Count(p, "deleteRemote")
        + Count(p, "checkout") + Count(p, "pull")

-----------------------------------------------------------------------------
\* C1: when the head is unresolvable on both resolution attempts of a call
\* and both recovery deletions succeed, the call returns a non-nil
\* malformed-repository error and never success.
C1_TwoFailuresReturnMalformed ==
    \A p \in procs :
        (/\ Results(p, "head") = <<"unresolvable", "unresolvable">>
         /\ Results(p, "delete") = <<"nil", "nil">>)
        => /\ Done(p)
           /\ call[p].err # Nil
           /\ call[p].err.phase \in {"head", "malformed"}

\* C2: an existing mirror whose head is unresolvable on the first attempt,
\* with the deletion and the re-clone succeeding and the head then
\* resolvable: the call returns success after exactly one deletion and one
\* clone, and invokes no remote reconciliation, checkout or pull.
C2_Recovered(p) ==
    /\ Done(p)
    /\ Trace(p)[1].op = "open" /\ Trace(p)[1].res = "nil"
    /\ Results(p, "head") = <<"unresolvable", "nil">>
    /\ \A k \in At(p, "delete") \cup At(p, "clone") : Trace(p)[k].res = "nil"

C2_CorruptionRecovery ==
    \A p \in procs :
        C2_Recovered(p)
        => /\ call[p].err = Nil
           /\ Count(p, "delete") = 1
           /\ Count(p, "clone") = 1
           /\ Reconciles(p) = 0

C2_Witness ==
    \E p \in procs : C2_Recovered(p) /\ Count(p, "clone") = 1 /\ call[p].err = Nil

\* C3: with no mirror at the path and a clone that succeeds with a
\* resolvable head, the call invokes clone once, with the configured origin
\* and branch, and returns success without getRemote, createRemote,
\* deleteRemote, checkout or pull.
C3_Bootstrapped(p) ==
    /\ Done(p)
    /\ \/ call[p].pre.fs.root = "absent"
       \/ call[p].pre.fs.root = "dir" /\ call[p].pre.fs.git = "absent"
    /\ Results(p, "clone") = <<"nil">>
    /\ Results(p, "head") = <<"nil">>

C3_FreshBootstrap ==
    \A p \in procs :
        C3_Bootstrapped(p)
        => /\ call[p].err = Nil
           /\ \A k \in At(p, "clone") :
                Trace(p)[k].url = w.origin /\ Trace(p)[k].ref = w.branch
           /\ Reconciles(p) = 0

C3_Witness ==
    \E p \in procs :
        C3_Bootstrapped(p) /\ call[p].err = Nil /\ meta.remote = <<w.origin>>

\* C4: for an existing valid mirror and every initial state of the remote
\* "origin", when no backend call fails, after the call the remote "origin"
\* exists with the URL list [origin]; clone is never invoked, and
\* deleteRemote is invoked only when the remote was found with other URLs.
C4_Reconciled(p) ==
    /\ Done(p)
    /\ call[p].pre.fs.git \in {"file", "dir"}
    /\ call[p].pre.meta.head # NoRef
    /\ NoFailure(p)

C4_RemoteReconciliation ==
    \A p \in procs :
        C4_Reconciled(p)
        => /\ meta.remote = <<w.origin>>
           /\ Count(p, "clone") = 0
           /\ (Count(p, "deleteRemote") > 0
                => call[p].pre.meta.remote \notin {NoRemote, <<w.origin>>})

C4_Witness ==
    \E p \in procs :
        /\ C4_Reconciled(p)
        /\ call[p].pre.meta.remote = <<Origin, OtherURL>>
        /\ Count(p, "deleteRemote") = 1
        /\ meta.remote = <<w.origin>>

\* C5: whenever a call returns success, the mirror's head is resolvable and
\* equals the configured target branch (stated for a Worker built with a
\* branch option).
C5_SuccessOnTargetBranch ==
    \A p \in procs :
        (Done(p) /\ call[p].err = Nil /\ w.branch # NoRef)
        => /\ fs.git \in {"file", "dir"}
           /\ meta.head # NoRef
           /\ meta.head = w.branch

\* C6: a call that follows a successful call, with the remote unchanged and
\* no backend failure, invokes no clone, no deletion, no createRemote or
\* deleteRemote and no checkout; its pull yields already-up-to-date, it
\* returns success and it leaves the mirror as it found it (stated for a
\* Worker built with a branch option).
C6_SecondCall(p) ==
    /\ Done(p)
    /\ call[p].prevOK
    /\ call[p].quiet
    /\ ~pushed
    /\ NoFailure(p)
    /\ w.branch # NoRef

C6_Idempotence ==
    \A p \in procs :
        C6_SecondCall(p)
        => /\ Count(p, "clone") = 0
           /\ Count(p, "delete") = 0
           /\ Count(p, "createRemote") = 0
           /\ Count(p, "deleteRemote") = 0
           /\ Count(p, "checkout") = 0
           /\ Results(p, "pull") = <<"uptodate">>
           /\ call[p].err = Nil
           /\ Mirror = call[p].pre

\* C7: a pull that reports already-up-to-date makes the call return success
\* as a pull that fetched changes does; every other pull error makes it
\* return a non-nil pull error.
C7_Pulled(p) ==
    Done(p) /\ Len(Trace(p)) > 0 /\ Trace(p)[Len(Trace(p))].op = "pull"

C7_PullResult ==
    \A p \in procs :
        C7_Pulled(p)
        => LET res == Trace(p)[Len(Trace(p))].res IN
           IF res \in {"nil", "uptodate"} THEN call[p].err = Nil
           ELSE call[p].err # Nil /\ call[p].err.phase = "pull"

C7_Witness ==
    \E p \in procs :
        /\ C7_Pulled(p)
        /\ Trace(p)[Len(Trace(p))].res = "uptodate"
        /\ call[p].err = Nil

\* C8: with a context that is already cancelled, a clone or pull that the
\* call reaches returns a cancellation error and changes nothing, and the
\* call returns that cancellation error.
C8_Cancellation ==
    \A p \in procs :
        call[p].ctx = "canceled"
        => \A k \in At(p, "clone") \cup At(p, "pull") :
            /\ Trace(p)[k].res = "canceled"
            /\ ~Trace(p)[k].changed
            /\ Done(p) => call[p].err.kind = "canceled"

\* C9: delete returns success without touching the file system when the
\* path does not exist or is a directory without a .git entry; it returns
\* an error without touching the file system when the path is not a
\* directory or the .git entry is not a directory.
C9_DeleteGuards ==
    lastDelete.called
    => LET pre == lastDelete.pre
           same == lastDelete.post = lastDelete.pre
       IN /\ pre.root = "absent" => lastDelete.err = Nil /\ same
          /\ (pre.root = "dir" /\ pre.git = "absent") => lastDelete.err = Nil /\ same
          /\ pre.root = "file" => lastDelete.err # Nil /\ same
          /\ (pre.root = "dir" /\ pre.git = "file") => lastDelete.err # Nil /\ same

C9_Witness ==
    /\ lastDelete.called
    /\ lastDelete.pre.root = "file"
    /\ lastDelete.err = Err("notdir")
    /\ fs = lastDelete.pre

\* C10: whenever delete removes anything, it removes the .git entry only:
\* the directory at the path and every other entry under it are as before.
C10_DeleteFrame ==
    (lastDelete.called /\ lastDelete.post # lastDelete.pre)
    => /\ lastDelete.pre.root = "dir"
       /\ lastDelete.pre.git = "dir"
       /\ lastDelete.post = [lastDelete.pre EXCEPT !.git = "absent"]

C10_Witness ==
    /\ lastDelete.called
    /\ lastDelete.post # lastDelete.pre
    /\ lastDelete.post.root = "dir"
    /\ lastDelete.post.work = WorkEntries
    /\ \E p \in procs : Done(p) /\ Count(p, "delete") > 0

-----------------------------------------------------------------------------
\* C11: every non-nil error a call returns is wrapped with the phase that
\* failed; no error of clone, getRemote, createRemote or deleteRemote reaches
\* the caller unwrapped.
C11_ErrorsWrapped ==
    \A p \in procs :
        (Done(p) /\ call[p].err # Nil) => call[p].err.phase # ""

-----------------------------------------------------------------------------
\* The target branch of the Worker as the options name it: the branch of the
\* Branch option, master when there is none.
TargetBranch == IF opts = <<>> THEN Master ELSE opts[Len(opts)].value

\* C12: after a call that failed at any phase, a following call in which no
\* backend operation fails returns success with the remote "origin" holding
\* exactly the origin URL and the head on the target branch.
C12_Retry(p) ==
    Done(p) /\ call[p].prevFailed /\ NoFailure(p) /\ ~pushed

C12_RetryAfterFailure ==
    \A p \in procs :
        C12_Retry(p)
        => /\ call[p].err = Nil
           /\ meta.remote = <<w.origin>>
           /\ meta.head = TargetBranch

\* the same for the Workers built with a branch option
C12_RetryWithBranch ==
    \A p \in procs :
        (C12_Retry(p) /\ opts # <<>>)
        => /\ call[p].err = Nil
           /\ meta.remote = <<w.origin>>
           /\ meta.head = TargetBranch

-----------------------------------------------------------------------------
\* C13: two calls on the same path, interleaved at the granularity of the
\* backend operations over a backend that fails no operation on its own:
\* an interleaving in which a call returns an error or the mirror ends
\* unreconciled is reachable (C13_Witness: both calls read a drifted remote,
\* and the second deleteRemote finds it gone), and no serial order of the two
\* calls produces such an outcome: it takes calls that overlap.
C13_Live == \A p \in procs : call[p].ctx = "live"

C13_Failed(p) == call[p].pc = "panic" \/ (Done(p) /\ call[p].err # Nil)

C13_Unreconciled ==
    /\ \A p \in procs : Done(p)
    /\ ~pushed
    /\ (meta.remote # <<w.origin>> \/ meta.head # w.branch \/ fs.git # "dir")

C13_ConcurrentUnsafe ==
    (C13_Live /\ ((\E p \in procs : C13_Failed(p)) \/ C13_Unreconciled))
    => \E p \in procs : call[p].overlap

C13_Witness ==
    /\ C13_Live
    /\ \E p, q \in procs :
        /\ p # q
        /\ Done(p) /\ Done(q)
        /\ Results(q, "deleteRemote") = <<"nil">>
        /\ Results(p, "deleteRemote") = <<"remotenotfound">>
        /\ call[p].err = Err("remotenotfound")

-----------------------------------------------------------------------------
\* C15: a Worker built without a branch option targets refs/heads/master; a
\* Worker built with the branch option of short name n targets refs/heads/n.
C15_TargetBranch ==
    /\ opts = <<>> => w.branch = RefName("master")
    /\ \A n \in {"master", "dev"} : opts = <<Branch(n)>> => w.branch = RefName(n)

\* the half of C15 that is about the branch option
C15_BranchOption ==
    \A n \in {"master", "dev"} : opts = <<Branch(n)>> => w.branch = RefName(n)

-----------------------------------------------------------------------------
\* C16: an open that fails for a reason other than not-exists, and a clone
\* that fails, end the call at once with an error: no deletion and no
\* further open or clone follows in that call.
C16_Fatal(e) ==
    \/ e.op = "open" /\ e.res \notin {"nil", "notexists"}
    \/ e.op = "clone" /\ e.res # "nil"

C16_NoRetry ==
    \A p \in procs : \A k \in 1..Len(Trace(p)) :
        C16_Fatal(Trace(p)[k])
        => /\ k = Len(Trace(p))
           /\ Done(p)
           /\ call[p].err # Nil

\* a failed clone that left metadata behind ends the call: nothing deletes it
C16_Witness ==
    \E p \in procs :
        /\ Done(p)
        /\ Results(p, "open") = <<"notexists">>
        /\ Results(p, "clone") = <<"backend">>
        /\ Count(p, "delete") = 0
        /\ call[p].err # Nil
        /\ fs.git = "dir"

-----------------------------------------------------------------------------
\* C17: whatever the backend does, one call invokes open at most twice and
\* clone at most twice, and, every backend operation returning, the call
\* terminates: it returns success or an error.
C17_Running == \E p \in procs : call[p].pc \notin {"idle", "done"}

C17_Returned == \A p \in procs : call[p].pc = "done"

C17_AtMostTwice ==
    \A p \in procs : Count(p, "open") <= 2 /\ Count(p, "clone") <= 2

C17_BoundedResolution ==
    /\ []C17_AtMostTwice
    /\ C17_Running ~> C17_Returned

C17_Witness ==
    \E p \in procs :
        /\ Done(p)
        /\ Count(p, "open") = 2
        /\ Count(p, "clone") = 2

-----------------------------------------------------------------------------
\* C18: the recovery deletion is invoked after every failed head resolution
\* of the loop, the second included: a call whose head is unresolvable on
\* both attempts invokes the deletion twice and ends with the metadata
\* removed.
C18_DeleteFollows(p) ==
    \A k \in At(p, "head") :
        Trace(p)[k].res = "unresolvable"
        => IF k = Len(Trace(p)) THEN call[p].pc = "delete"
           ELSE Trace(p)[k + 1].op = "delete"

C18_BothUnresolvable(p) ==
    Done(p) /\ Results(p, "head") = <<"unresolvable", "unresolvable">>

\* the metadata entry under the path is gone, and with it the metadata
C18_Removed == fs.git = "absent" /\ (fs.root # "bare" => meta = NoMeta)

-----------------------------------------------------------------------------
\* C19: on the existing-mirror path, checkout is invoked if and only if the
\* head name resolved by prepare differs from the target branch reference;
\* when invoked it has force = true, and create = true exactly when the
\* target branch reference does not exist locally; a failed checkout makes
\* the call return an error.
C19_Compared(p) ==
    \E k \in At(p, "worktree") : Trace(p)[k].res = "nil"

C19_CheckoutIffDiffers(p) ==
    /\ Count(p, "checkout") <= 1
    /\ Count(p, "checkout") = 1
       => ~call[p].cloned /\ C19_Compared(p) /\ call[p].head # w.branch
    /\ (C19_Compared(p) /\ call[p].pc \in {"pull", "done"})
       => (Count(p, "checkout") = 1 <=> call[p].head # w.branch)

C19_CheckoutOptions(p) ==
    \A k \in At(p, "checkout") :
        LET e == Trace(p)[k] IN
        /\ e.force
        /\ e.ref = w.branch
        /\ e.create <=> w.branch \notin call[p].pre.meta.refs
        /\ e.res # "nil"
           => /\ k = Len(Trace(p))
              /\ Done(p)
              /\ call[p].err # Nil
              /\ call[p].err.phase = "branch"

-----------------------------------------------------------------------------
\* C20: within one call, pull is invoked only after the remote
\* reconciliation has returned success and after the head was found equal to
\* the target branch or checkout returned success; when the remote
\* reconciliation fails neither checkout nor pull is invoked, and when
\* checkout fails pull is not invoked.
C20_RemoteOp(e) == e.op \in {"getRemote", "deleteRemote", "createRemote"}

C20_RemoteFailed(e) ==
    \/ e.op = "getRemote" /\ e.res \notin {"nil", "remotenotfound"}
    \/ e.op \in {"deleteRemote", "createRemote"} /\ e.res # "nil"

\* updateOrigin has returned nil before position k of the trace: its last
\* operation found the remote as wanted or created it
C20_Reconciled(p, k) ==
    \E j \in 1..(k - 1) :
        /\ C20_RemoteOp(Trace(p)[j])
        /\ ~C20_RemoteOp(Trace(p)[j + 1])
        /\ \/ Trace(p)[j].op = "createRemote" /\ Trace(p)[j].res = "nil"
           \/ /\ Trace(p)[j].op = "getRemote" /\ Trace(p)[j].res = "nil"
              /\ call[p].urls = <<w.origin>>

C20_BranchReady(p, k) ==
    \/ call[p].head = w.branch /\ Count(p, "checkout") = 0
    \/ \E j \in 1..(k - 1) :
        Trace(p)[j].op = "checkout" /\ Trace(p)[j].res = "nil"

C20_PhaseOrdering ==
    \A p \in procs : \A k \in 1..Len(Trace(p)) :
        LET e == Trace(p)[k] IN
        /\ e.op = "pull" => C20_Reconciled(p, k) /\ C20_BranchReady(p, k)
        /\ e.op = "checkout" => C20_Reconciled(p, k)
        /\ C20_RemoteFailed(e)
           => /\ k = Len(Trace(p))
              /\ Done(p) /\ call[p].err # Nil
              /\ Count(p, "checkout") = 0 /\ Count(p, "pull") = 0
        /\ (e.op = "checkout" /\ e.res # "nil")
           => Done(p) /\ call[p].err # Nil /\ Count(p, "pull") = 0

\* a pull after the remote was replaced and the branch switched
C20_Witness ==
    \E p \in procs :
        /\ Done(p)
        /\ Results(p, "deleteRemote") = <<"nil">>
        /\ Results(p, "createRemote") = <<"nil">>
        /\ Results(p, "checkout") = <<"nil">>
        /\ Count(p, "pull") = 1

-----------------------------------------------------------------------------
\* C21: a call reaches the branch comparison, which reads the head's name,
\* only with a head that prepare resolved; and prepare never returns without
\* an error while the head is unset and the mirror was not cloned.
C21_AfterPrepare(p) ==
    \/ call[p].pc \in {"getRemote", "deleteRemote", "createRemote", "worktree",
                       "reference", "checkout", "pull", "panic"}
    \/ Count(p, "getRemote") > 0

C21_AtComparison(p) ==
    \/ call[p].pc \in {"reference", "checkout", "pull", "panic"}
    \/ Count(p, "reference") + Count(p, "pull") > 0

C21_Comparison ==
    \A p \in procs : C21_AtComparison(p) => call[p].head # NoRef

C21_HeadResolved ==
    \A p \in procs :
        /\ C21_AtComparison(p) => call[p].head # NoRef
        /\ C21_AfterPrepare(p) => (call[p].head # NoRef \/ call[p].cloned)

-----------------------------------------------------------------------------
\* C22: a call invokes the deletion only immediately after a failed head
\* resolution of its own; when the head of an existing mirror resolves on
\* the first attempt, no later failure (remote reconciliation, checkout,
\* pull) makes the call delete the metadata or clone.
C22_AfterFailedHead(p) ==
    \A k \in At(p, "delete") :
        /\ k > 1
        /\ Trace(p)[k - 1].op = "head"
        /\ Trace(p)[k - 1].res = "unresolvable"

C22_ResolvedAtOnce(p) ==
    /\ Len(Trace(p)) >= 2
    /\ Trace(p)[1].op = "open" /\ Trace(p)[1].res = "nil"
    /\ Trace(p)[2].op = "head" /\ Trace(p)[2].res = "nil"

C22_DeleteOnlyAfterFailedHead ==
    \A p \in procs :
        /\ C22_AfterFailedHead(p)
        /\ C22_ResolvedAtOnce(p)
           => /\ Count(p, "delete") = 0
              /\ Count(p, "clone") = 0
              /\ fs = call[p].pre.fs

\* a resolved mirror whose remote was deleted and not recreated, left in place
C22_Witness ==
    \E p \in procs :
        /\ Done(p)
        /\ C22_ResolvedAtOnce(p)
        /\ Results(p, "deleteRemote") = <<"nil">>
        /\ Results(p, "createRemote") = <<"backend">>
        /\ call[p].err # Nil
        /\ fs.git = "dir"
        /\ meta.head # NoRef

====
